---- MODULE Spec2Model ----
(***************************************************************************)
(* Central heating demand: the binary sensor (binary_sensor.py) and the    *)
(* plain sensor (sensor.py) of custom_components/central_heating_demand,   *)
(* both reading the same Home Assistant state store.                       *)
(*                                                                         *)
(* Temperatures are Python floats in the source; the model uses whole      *)
(* degrees.  An attribute value is a tagged record so that "absent"        *)
(* (None), a number and a non-numeric string can be compared with = as     *)
(* Python's != compares them.                                              *)
(***************************************************************************)
EXTENDS Integers, Sequences, FiniteSets, TLC

VARIABLES
    store,                          \* hass.states: entity id -> State or no state
    zone_state,                     \* hass.states.get(zone_entity_id): its raw state
    trv_climate_entities,           \* configuration: the TRV entity ids, in order
    heater_entity_id,               \* configuration: heater entity id or NoneStr
    zone_entity_id,                 \* configuration: zone entity id or NoneStr
    is_heating_demanded,            \* binary sensor fields (self._...)
    max_demand_delta,
    max_demand_current_temperature,
    max_demand_target_temperature,
    max_demand_trv_entity_id,
    max_demand_trv_name,
    is_away,
    last_sent_target_temperature,
    last_sent_hvac_mode,
    plain_is_heating_demanded,      \* sensor.py: self._is_heating_demanded
    tasks,                          \* _async_control_heater coroutines not yet finished
    done,                           \* the dispatch that finished last, if it ran alone
    started,                        \* EVENT_HOMEASSISTANT_START was delivered
    heater,                         \* the heater entity: the last calls sent to it
    last_event                      \* the notification handled by the last step

configVars == <<trv_climate_entities, heater_entity_id, zone_entity_id>>
leaderVars == <<max_demand_delta, max_demand_current_temperature,
                max_demand_target_temperature, max_demand_trv_entity_id,
                max_demand_trv_name>>
publishedVars == <<is_heating_demanded, leaderVars, is_away>>
debounceVars == <<last_sent_target_temperature, last_sent_hvac_mode>>
vars == <<store, zone_state, configVars, publishedVars, debounceVars,
          plain_is_heating_demanded, tasks, done, started, heater, last_event>>

----------------------------------------------------------------------------
(* Values *)

NoneStr == "None"                   \* Python None where the other values are strings
None == [k |-> "none", v |-> 0]     \* Python None where the other values are numbers
Bad == [k |-> "str", v |-> 0]       \* a non-numeric attribute value (a str)
Num(n) == [k |-> "num", v |-> n]
IsNum(x) == x.k = "num"

\* vol.Optional(CONF_MINIMUM_TEMPERATURE, default=5.0)
minimum_temperature == 5
\* vol.Optional("away_temp", default=12.0)
away_temp == 12
\* max_delta = -100.0  # Initialize with a very low value
InitialMaxDelta == -100

HEATER == "climate.heater"
ZONE == "zone.home"

\* hass.states.get(entity_id) returning None
NoState == [present |-> FALSE, state |-> NoneStr, hvac_action |-> NoneStr,
            current_temperature |-> None, temperature |-> None,
            friendly_name |-> NoneStr]

State(s, a, c, t, n) ==
    [present |-> TRUE, state |-> s, hvac_action |-> a,
     current_temperature |-> c, temperature |-> t, friendly_name |-> n]

Max(a, b) == IF a >= b THEN a ELSE b

----------------------------------------------------------------------------
(* binary_sensor.py: _async_update_heating_demand, the aggregation *)

\* slip: any state of the zone entity counts as away
IsAwayAnyState(zid, zstate) == zid # NoneStr /\ zstate # NoneStr

\* Check Away Mode: the zone entity is configured, present, and its state is "0"
IsAway(zid, zstate) == zid # NoneStr /\ zstate # NoneStr /\ zstate = "0"

\* slip: the away override is not applied
EffectiveTargetOwnSetpoint(away, target_temperature) == target_temperature

\* effective_target_temperature: the TRV's own target, or away_temp when away
EffectiveTarget(away, target_temperature) ==
    IF away THEN Num(away_temp) ELSE target_temperature

\* the subtraction raises TypeError unless both operands are numbers
DeltaRaises(effective, current_temperature) ==
    ~IsNum(effective) \/ ~IsNum(current_temperature)

\* slip: the raw state is required for every demand
TrvDemandingOnlyInHeat(hvac_action, trv_state, delta) ==
    trv_state = "heat" /\ (hvac_action = "heating" \/ delta > 0)

\* slip: a TRV exactly at its target counts as demanding
TrvDemandingAtTarget(hvac_action, trv_state, delta) ==
    hvac_action = "heating" \/ (trv_state = "heat" /\ delta >= 0)

\* hvac_action == "heating" or (trv_state == "heat" and delta > 0)
TrvDemanding(hvac_action, trv_state, delta) ==
    hvac_action = "heating" \/ (trv_state = "heat" /\ delta > 0)

\* if delta > max_delta
IsNewLeader(delta, max_delta) == delta > max_delta

\* if current_temperature is None or target_temperature is None: continue
IsValidTrv(st) ==
    st.present /\ st.current_temperature # None /\ st.temperature # None

\* the locals of _async_update_heating_demand before the loop
LoopStart ==
    [raised |-> FALSE, demanding_trvs |-> 0, max_delta |-> InitialMaxDelta,
     leader_entity_id |-> NoneStr, leader_current_temp |-> None,
     leader_target_temp |-> None, leader_friendly_name |-> NoneStr,
     valid_trv_found |-> FALSE]

\* one pass of the body of "for entity_id in self._trv_climate_entities"
LoopBody(acc, entity_id, st, away) ==
    IF ~IsValidTrv(st) THEN acc
    ELSE LET effective == EffectiveTarget(away, st.temperature) IN
         IF DeltaRaises(effective, st.current_temperature)
         THEN [acc EXCEPT !.raised = TRUE, !.valid_trv_found = TRUE]
         ELSE LET delta == effective.v - st.current_temperature.v
                  counted == [acc EXCEPT
                      !.valid_trv_found = TRUE,
                      !.demanding_trvs =
                          IF TrvDemanding(st.hvac_action, st.state, delta)
                          THEN @ + 1 ELSE @]
              IN IF IsNewLeader(delta, acc.max_delta)
                 THEN [counted EXCEPT
                          !.max_delta = delta,
                          !.leader_entity_id = entity_id,
                          !.leader_current_temp = st.current_temperature,
                          !.leader_target_temp = st.temperature,
                          !.leader_friendly_name = st.friendly_name]
                 ELSE counted

RECURSIVE Loop(_, _, _, _, _)
Loop(i, acc, trvs, states, away) ==
    IF i > Len(trvs) \/ acc.raised THEN acc
    ELSE Loop(i + 1, LoopBody(acc, trvs[i], states[trvs[i]], away),
              trvs, states, away)

\* slip: the leader's delta is published unclamped
ClampedDeltaRaw(max_delta) == max_delta

\* self._max_demand_delta = max(0.0, max_delta)
ClampedDelta(max_delta) == Max(0, max_delta)

\* if valid_trv_found and leader_entity_id
HasLeader(acc) == acc.valid_trv_found /\ acc.leader_entity_id # NoneStr

\* slip: an empty count is taken for demand
IsHeatingDemandedFromZero(demanding_trvs) == demanding_trvs >= 0

\* self._is_heating_demanded = demanding_trvs > 0
IsHeatingDemanded(demanding_trvs) == demanding_trvs > 0

\* target_hvac_mode / target_to_set handed to _async_control_heater
HeaterMode(demanded) == IF demanded THEN "heat" ELSE "off"

\* slip: the leader's target is relayed even when nothing demands heat
HeaterTargetAlwaysLeader(demanded, leader_target) ==
    IF leader_target # None THEN leader_target ELSE Num(minimum_temperature)

HeaterTarget(demanded, leader_target) ==
    IF demanded /\ leader_target # None THEN leader_target
    ELSE Num(minimum_temperature)

\* everything one call of _async_update_heating_demand computes
Aggregate(trvs, states, zid, zstate) ==
    LET away == IsAway(zid, zstate)
        acc == Loop(1, LoopStart, trvs, states, away)
        demanded == IsHeatingDemanded(acc.demanding_trvs)
        lead == HasLeader(acc)
        target == IF lead THEN acc.leader_target_temp ELSE None
    IN [raised |-> acc.raised,
        is_away |-> away,
        is_heating_demanded |-> demanded,
        max_demand_delta |-> IF lead THEN ClampedDelta(acc.max_delta) ELSE 0,
        max_demand_current_temperature |->
            IF lead THEN acc.leader_current_temp ELSE None,
        max_demand_target_temperature |-> target,
        max_demand_trv_entity_id |->
            IF lead THEN acc.leader_entity_id ELSE NoneStr,
        max_demand_trv_name |->
            IF lead THEN acc.leader_friendly_name ELSE NoneStr,
        target_to_set |-> HeaterTarget(demanded, target),
        target_hvac_mode |-> HeaterMode(demanded)]

----------------------------------------------------------------------------
(* sensor.py: _async_update_heating_demand *)

\* current_temperature < target_temperature raises TypeError for a number
\* against a str; two strs compare (the model's one str is not below itself)
PlainCompareRaises(c, t) == (IsNum(c) /\ t = Bad) \/ (c = Bad /\ IsNum(t))

\* slip: a TRV exactly at its target counts as below it
PlainBelowOrEqual(c, t) == IsNum(c) /\ IsNum(t) /\ c.v <= t.v

\* current_temperature < target_temperature
PlainBelow(c, t) == IsNum(c) /\ IsNum(t) /\ c.v < t.v

\* "on", "off", or "raised" when the comparison raises before any demand is seen
RECURSIVE PlainLoop(_, _, _)
PlainLoop(i, trvs, states) ==
    IF i > Len(trvs) THEN "off"
    ELSE LET st == states[trvs[i]] IN
         IF ~st.present THEN PlainLoop(i + 1, trvs, states)
         ELSE IF st.hvac_action = "heating" THEN "on"
         ELSE IF st.state = "heat" /\ st.current_temperature # None
                 /\ st.temperature # None
              THEN IF PlainCompareRaises(st.current_temperature, st.temperature)
                   THEN "raised"
                   ELSE IF PlainBelow(st.current_temperature, st.temperature)
                        THEN "on"
                        ELSE PlainLoop(i + 1, trvs, states)
              ELSE PlainLoop(i + 1, trvs, states)

----------------------------------------------------------------------------
(* The two sensors' handlers *)

\* at most this many _async_control_heater coroutines are unfinished at once
MaxTasks == 2

\* self.hass.async_create_task(self._async_control_heater(target, mode)):
\* the coroutine has not run yet.  temp_call / mode_call record what became of
\* its two service calls ("no": not issued, "issued", then "ok" or "failed");
\* alone: no other
\* dispatch was unfinished while this one was; prev_temp_call /
\* prev_mode_call: the calls of the dispatch that ran just before it when that
\* one had the same command and both ran alone ("none" otherwise).
NewTask(target_temp, target_hvac_mode, others) ==
    [target_temp |-> target_temp, target_hvac_mode |-> target_hvac_mode,
     pc |-> "start", temp_call |-> "no", mode_call |-> "no",
     alone |-> (others = <<>>),
     prev_temp_call |-> "none", prev_mode_call |-> "none"]

NotAlone(ts) == [i \in DOMAIN ts |-> [ts[i] EXCEPT !.alone = FALSE]]

\* what is kept of the finished dispatch once a new one is created: nothing
\* if the new one overlaps another, and no longer its predecessor's calls
Forget(d, others) ==
    IF d = <<>> \/ others # <<>> THEN <<>>
    ELSE <<[d[1] EXCEPT !.prev_temp_call = "none", !.prev_mode_call = "none"]>>

\* _async_update_heating_demand of the binary sensor over the store as given;
\* outcome is "ok", or "raised" when the loop raised and only _is_away was set
BinaryUpdate(states, zstate) ==
    LET r == Aggregate(trv_climate_entities, states, zone_entity_id, zstate) IN
    /\ is_away' = r.is_away
    /\ IF r.raised
       THEN UNCHANGED <<is_heating_demanded, leaderVars, tasks, done>>
       ELSE /\ is_heating_demanded' = r.is_heating_demanded
            /\ max_demand_delta' = r.max_demand_delta
            /\ max_demand_current_temperature' = r.max_demand_current_temperature
            /\ max_demand_target_temperature' = r.max_demand_target_temperature
            /\ max_demand_trv_entity_id' = r.max_demand_trv_entity_id
            /\ max_demand_trv_name' = r.max_demand_trv_name
            /\ IF heater_entity_id # NoneStr
               THEN /\ Len(tasks) < MaxTasks
                    /\ tasks' = Append(NotAlone(tasks),
                           NewTask(r.target_to_set, r.target_hvac_mode, tasks))
                    /\ done' = Forget(done, tasks)
               ELSE UNCHANGED <<tasks, done>>

BinaryOutcome(states, zstate) ==
    IF Aggregate(trv_climate_entities, states, zone_entity_id, zstate).raised
    THEN "raised" ELSE "ok"

\* _async_update_heating_demand of the plain sensor
PlainUpdate(states) ==
    LET r == PlainLoop(1, trv_climate_entities, states) IN
    plain_is_heating_demanded' =
        IF r = "raised" THEN plain_is_heating_demanded ELSE (r = "on")

PlainOutcome(states) ==
    IF PlainLoop(1, trv_climate_entities, states) = "raised" THEN "raised" ELSE "ok"

\* slip: the listener also recomputes when an entity is removed
ListenerTriggersOnRemoval(old_state, new_state) ==
    \/ /\ old_state.present
       /\ new_state.present
       /\ \/ old_state.hvac_action # new_state.hvac_action
          \/ old_state.current_temperature # new_state.current_temperature
          \/ old_state.temperature # new_state.temperature
    \/ ~old_state.present /\ new_state.present
    \/ old_state.present /\ ~new_state.present

\* _async_trv_state_listener: the condition under which it recomputes
ListenerTriggers(old_state, new_state) ==
    \/ /\ old_state.present
       /\ new_state.present
       /\ \/ old_state.hvac_action # new_state.hvac_action
          \/ old_state.current_temperature # new_state.current_temperature
          \/ old_state.temperature # new_state.temperature
    \/ ~old_state.present /\ new_state.present

\* _async_update_on_start of both sensors (EVENT_HOMEASSISTANT_START, once)
HomeAssistantStart ==
    /\ ~started
    /\ started' = TRUE
    /\ BinaryUpdate(store, zone_state)
    /\ PlainUpdate(store)
    /\ last_event' = [kind |-> "start", entity |-> NoneStr,
                      binary |-> BinaryOutcome(store, zone_state),
                      plain |-> PlainOutcome(store)]
    /\ UNCHANGED <<store, zone_state, configVars, debounceVars, heater>>

\* the zone entity changes state: _async_zone_state_listener (binary sensor only)
ZoneStateChanged(z) ==
    /\ zone_entity_id # NoneStr
    /\ z # zone_state
    /\ zone_state' = z
    /\ BinaryUpdate(store, z)
    /\ last_event' = [kind |-> "zone", entity |-> zone_entity_id,
                      binary |-> BinaryOutcome(store, z), plain |-> "skipped"]
    /\ UNCHANGED <<store, configVars, debounceVars, plain_is_heating_demanded,
                   started, heater>>

\* a configured TRV changes in the state store (new_state = NoState: removed)
\* and both sensors' _async_trv_state_listener run on the notification
TrvStateChanged(e, new_state) ==
    LET old_state == store[e]
        states == [store EXCEPT ![e] = new_state]
        go == ListenerTriggers(old_state, new_state)
    IN /\ new_state # old_state
       /\ store' = states
       /\ IF go
          THEN /\ BinaryUpdate(states, zone_state)
               /\ PlainUpdate(states)
          ELSE UNCHANGED <<publishedVars, tasks, done, plain_is_heating_demanded>>
       /\ last_event' = [kind |-> "trv", entity |-> e,
              binary |-> IF go THEN BinaryOutcome(states, zone_state) ELSE "skipped",
              plain |-> IF go THEN PlainOutcome(states) ELSE "skipped"]
       /\ UNCHANGED <<zone_state, configVars, debounceVars, started, heater>>

----------------------------------------------------------------------------
(* binary_sensor.py: _async_control_heater, one coroutine per dispatch.     *)
(* Each await of hass.services.async_call is a point where the event loop   *)
(* may run a notification handler or another coroutine.                     *)

Remove(ts, i) == SubSeq(ts, 1, i - 1) \o SubSeq(ts, i + 1, Len(ts))

SameCommand(t, d) ==
    t.target_temp = d.target_temp /\ t.target_hvac_mode = d.target_hvac_mode

\* the record kept of a coroutine that has just ended: done holds the last
\* dispatch only if it ran alone
Remember(t) ==
    LET follows == t.alone /\ done # <<>> /\ SameCommand(t, done[1])
    IN IF t.alone
       THEN <<[t EXCEPT !.pc = "done",
                  !.prev_temp_call = IF follows THEN done[1].temp_call ELSE "none",
                  !.prev_mode_call = IF follows THEN done[1].mode_call ELSE "none"]>>
       ELSE <<>>

\* what became of a call once its await is over
CallResult(ok) == IF ok THEN "ok" ELSE "failed"

\* slip: no debounce of set_temperature
TemperatureAlwaysDiffers(last_sent, target_temp) == TRUE

\* if self._last_sent_target_temperature != target_temp
TemperatureDiffers(last_sent, target_temp) == last_sent # target_temp

\* if getattr(self, "_last_sent_hvac_mode", None) != target_hvac_mode
ModeDiffers(last_sent, target_hvac_mode) == last_sent # target_hvac_mode

\* slip: the debounce state is updated whether or not the call raised
AfterCallAlwaysStored(result, value, last_sent) == value

\* try: await ...async_call(...); self._last_sent_... = value
\* except Exception: log only
AfterCall(result, value, last_sent) == IF result = "ok" THEN value ELSE last_sent

\* slip: an exception in step 1 ends the coroutine
HandleModeUnlessFailed(i, t) ==
    IF t.temp_call # "failed" /\ ModeDiffers(last_sent_hvac_mode, t.target_hvac_mode)
    THEN /\ tasks' = [tasks EXCEPT ![i] =
                [t EXCEPT !.pc = "await_mode", !.mode_call = "issued"]]
         /\ heater' = [heater EXCEPT !.hvac_mode = t.target_hvac_mode]
         /\ UNCHANGED done
    ELSE /\ tasks' = Remove(tasks, i)
         /\ done' = Remember(t)
         /\ UNCHANGED heater

\* "2. Handle HVAC Mode Change" for task t (already advanced past step 1),
\* reading _last_sent_hvac_mode as it is now; the call goes out to the heater
\* before the coroutine is suspended
HandleMode(i, t) ==
    IF ModeDiffers(last_sent_hvac_mode, t.target_hvac_mode)
    THEN /\ tasks' = [tasks EXCEPT ![i] =
                [t EXCEPT !.pc = "await_mode", !.mode_call = "issued"]]
         /\ heater' = [heater EXCEPT !.hvac_mode = t.target_hvac_mode]
         /\ UNCHANGED done
    ELSE /\ tasks' = Remove(tasks, i)
         /\ done' = Remember(t)
         /\ UNCHANGED heater

\* the coroutine runs from its beginning to its first await, or to its end
TaskStart(i) ==
    /\ i \in DOMAIN tasks
    /\ tasks[i].pc = "start"
    /\ \A j \in 1..(i - 1) : tasks[j].pc # "start"
    /\ LET t == tasks[i]
       IN IF TemperatureDiffers(last_sent_target_temperature, t.target_temp)
          THEN /\ tasks' = [tasks EXCEPT ![i] =
                      [t EXCEPT !.pc = "await_temp", !.temp_call = "issued"]]
               /\ heater' = [heater EXCEPT !.temperature = t.target_temp]
               /\ UNCHANGED done
          ELSE HandleMode(i, t)
    /\ UNCHANGED <<store, zone_state, configVars, publishedVars, debounceVars,
                   plain_is_heating_demanded, started, last_event>>

\* the set_temperature call returns (ok) or raises; the coroutine goes on to
\* step 2
SetTemperatureReturns(i, ok) ==
    /\ i \in DOMAIN tasks
    /\ tasks[i].pc = "await_temp"
    /\ last_sent_target_temperature' =
           AfterCall(CallResult(ok), tasks[i].target_temp,
                     last_sent_target_temperature)
    /\ HandleMode(i, [tasks[i] EXCEPT !.temp_call = CallResult(ok)])
    /\ UNCHANGED <<store, zone_state, configVars, publishedVars,
                   last_sent_hvac_mode, plain_is_heating_demanded, started,
                   last_event>>

\* the set_hvac_mode call returns (ok) or raises; the coroutine ends
SetHvacModeReturns(i, ok) ==
    /\ i \in DOMAIN tasks
    /\ tasks[i].pc = "await_mode"
    /\ last_sent_hvac_mode' =
           AfterCall(CallResult(ok), tasks[i].target_hvac_mode,
                     last_sent_hvac_mode)
    /\ tasks' = Remove(tasks, i)
    /\ done' = Remember([tasks[i] EXCEPT !.mode_call = CallResult(ok)])
    /\ UNCHANGED <<store, zone_state, configVars, publishedVars,
                   last_sent_target_temperature, plain_is_heating_demanded,
                   started, heater, last_event>>

----------------------------------------------------------------------------
(* Specifications *)

TRV1 == "climate.trv1"
TRV2 == "climate.trv2"
TRV3 == "climate.trv3"

Range(f) == {f[i] : i \in DOMAIN f}

\* __init__ of both sensors; nothing dispatched or handled yet
InitSensors ==
    /\ is_heating_demanded = FALSE
    /\ max_demand_delta = 0
    /\ max_demand_current_temperature = None
    /\ max_demand_target_temperature = None
    /\ max_demand_trv_entity_id = NoneStr
    /\ max_demand_trv_name = NoneStr
    /\ is_away = FALSE
    /\ last_sent_target_temperature = None
    /\ last_sent_hvac_mode = NoneStr
    /\ plain_is_heating_demanded = FALSE
    /\ tasks = <<>>
    /\ done = <<>>
    /\ started = FALSE
    /\ heater = [temperature |-> None, hvac_mode |-> NoneStr]
    /\ last_event = [kind |-> "none", entity |-> NoneStr,
                     binary |-> "skipped", plain |-> "skipped"]

\* SpecAgg: one recompute over every store of two TRVs, the attribute values
\* absent, malformed, and numbers on both sides of the targets and of away_temp
AggTrvs == <<TRV1, TRV2>>
AggCurrent == {None, Bad, Num(10), Num(15), Num(18), Num(20), Num(120)}
AggTarget == {None, Bad, Num(20), Num(21)}
AggStates ==
    {NoState} \cup
    {State(s, a, c, t, "Room") :
        s \in {"heat", "off"}, a \in {"heating", "idle"},
        c \in AggCurrent, t \in AggTarget}

InitAgg ==
    /\ trv_climate_entities = AggTrvs
    /\ heater_entity_id \in {NoneStr, HEATER}
    /\ zone_entity_id \in {NoneStr, ZONE}
    /\ zone_state \in IF zone_entity_id = NoneStr THEN {NoneStr} ELSE {"0", "1"}
    /\ store \in [Range(AggTrvs) -> AggStates]
    /\ InitSensors

NextAgg == HomeAssistantStart

SpecAgg == InitAgg /\ [][NextAgg]_vars

\* SpecLeader: one recompute over every store of three TRVs with numeric or
\* absent temperatures
LeaderTrvs == <<TRV1, TRV2, TRV3>>
LeaderCurrent == {None, Num(18), Num(20), Num(120)}
LeaderTarget == {None, Num(20), Num(21)}
LeaderStates ==
    {NoState} \cup
    {State(s, a, c, t, "Room") :
        s \in {"heat", "off"}, a \in {"heating", "idle"},
        c \in LeaderCurrent, t \in LeaderTarget}

InitLeader ==
    /\ trv_climate_entities = LeaderTrvs
    /\ heater_entity_id = HEATER
    /\ zone_entity_id \in {NoneStr, ZONE}
    /\ zone_state \in IF zone_entity_id = NoneStr THEN {NoneStr} ELSE {"0"}
    /\ store \in [Range(LeaderTrvs) -> LeaderStates]
    /\ InitSensors

NextLeader == HomeAssistantStart

SpecLeader == InitLeader /\ [][NextLeader]_vars

\* Spec: both sensors on two TRVs under any sequence of notifications (no
\* heater is configured, so nothing is dispatched); a TRV may be missing, or
\* lack its current temperature, and the zone entity may be unconfigured
EventTrvs == <<TRV1, TRV2>>
EventCurrent == {Num(18), Num(22)}
EventTarget == {Num(21)}
EventStates ==
    {NoState, State("heat", "idle", Num(18), Num(21), "Lounge"),
     State("heat", "idle", None, Num(21), "Room")} \cup
    {State(s, a, c, t, "Room") :
        s \in {"heat", "off"}, a \in {"heating", "idle"},
        c \in EventCurrent, t \in EventTarget}
EventZone == {NoneStr, "0", "1"}

Init ==
    /\ trv_climate_entities = EventTrvs
    /\ heater_entity_id = NoneStr
    /\ zone_entity_id \in {NoneStr, ZONE}
    /\ zone_state \in IF zone_entity_id = NoneStr THEN {NoneStr} ELSE EventZone
    /\ store \in [Range(EventTrvs) -> EventStates]
    /\ InitSensors

Next ==
    \/ HomeAssistantStart
    \/ \E z \in EventZone : ZoneStateChanged(z)
    \/ \E e \in Range(EventTrvs), new_state \in EventStates :
           TrvStateChanged(e, new_state)

Spec == Init /\ [][Next]_vars

\* SpecDispatch: the binary sensor driving a heater from one TRV, the
\* notifications and the dispatch coroutines interleaved, calls failing or not
DispatchTrvs == <<TRV1>>
DispatchStates ==
    {NoState,
     State("heat", "heating", Num(18), Num(21), "Room"),
     State("heat", "heating", Num(19), Num(21), "Room"),
     State("heat", "idle", Num(21), Num(21), "Room"),
     State("off", "idle", Num(21), Num(21), "Lounge")}

InitDispatch ==
    /\ trv_climate_entities = DispatchTrvs
    /\ heater_entity_id = HEATER
    /\ zone_entity_id = NoneStr
    /\ zone_state = NoneStr
    /\ store \in [Range(DispatchTrvs) -> DispatchStates]
    /\ InitSensors

NextDispatch ==
    \/ HomeAssistantStart
    \/ \E e \in Range(DispatchTrvs), new_state \in DispatchStates :
           TrvStateChanged(e, new_state)
    \/ \E i \in 1..MaxTasks : TaskStart(i)
    \/ \E i \in 1..MaxTasks, ok \in BOOLEAN : SetTemperatureReturns(i, ok)
    \/ \E i \in 1..MaxTasks, ok \in BOOLEAN : SetHvacModeReturns(i, ok)

SpecDispatch == InitDispatch /\ [][NextDispatch]_vars

\* SpecRelay: the same with every outbound call succeeding
NextRelay ==
    \/ HomeAssistantStart
    \/ \E e \in Range(DispatchTrvs), new_state \in DispatchStates :
           TrvStateChanged(e, new_state)
    \/ \E i \in 1..MaxTasks : TaskStart(i)
    \/ \E i \in 1..MaxTasks : SetTemperatureReturns(i, TRUE)
    \/ \E i \in 1..MaxTasks : SetHvacModeReturns(i, TRUE)

SpecRelay == InitDispatch /\ [][NextRelay]_vars

----------------------------------------------------------------------------
(* Properties *)

Configured == Range(trv_climate_entities)

\* the binary sensor's last handler ran _async_update_heating_demand to its
\* end on the store as it is now
Recomputed == last_event.binary = "ok"

\* the plain sensor's last handler did so
PlainRecomputed == last_event.plain = "ok"

HasBothTemperatures(e) ==
    /\ store[e].present
    /\ store[e].current_temperature # None
    /\ store[e].temperature # None

Heating(e) == store[e].present /\ store[e].hvac_action = "heating"

\* the signed delta of a TRV with both temperatures, against the away
\* temperature when the sensor is away and its own setpoint otherwise
SignedDelta(e) ==
    (IF is_away THEN away_temp ELSE store[e].temperature.v)
        - store[e].current_temperature.v

CountsAsDemanding(e) ==
    \/ store[e].hvac_action = "heating"
    \/ store[e].state = "heat" /\ SignedDelta(e) > 0

\* C1 as stated: after a recompute, a configured TRV present in the store
\* with hvac_action "heating" makes is_demanding true, whatever its raw state
\* and temperatures are, absent temperatures included.
C1_HeatingAlwaysDemands ==
    Recomputed => ((\E e \in Configured : Heating(e)) => is_heating_demanded)

\* C1 amended: after a recompute of the binary sensor, a configured TRV that
\* has hvac_action "heating" and both temperatures makes is_demanding true,
\* whatever its raw state and the temperature values; after a recompute of the
\* plain sensor any present TRV with hvac_action "heating" makes it "on".
C1_HeatingWithTemperaturesDemands ==
    /\ Recomputed =>
         ((\E e \in Configured : Heating(e) /\ HasBothTemperatures(e))
              => is_heating_demanded)
    /\ PlainRecomputed =>
         ((\E e \in Configured : Heating(e)) => plain_is_heating_demanded)

\* a TRV that is off and above its target, yet heating, made the sensor demand
C1_Witness ==
    /\ Recomputed
    /\ ~is_away
    /\ is_heating_demanded
    /\ Heating(TRV1) /\ HasBothTemperatures(TRV1)
    /\ store[TRV1].state = "off"
    /\ SignedDelta(TRV1) < 0
    /\ ~store[TRV2].present

\* C2: after a recompute, is_demanding is true exactly when some TRV that is
\* present with both temperatures has hvac_action "heating" or has raw state
\* "heat" and effective target above its current temperature.
C2_DemandIffSomeTrvCounts ==
    Recomputed =>
        (is_heating_demanded <=>
            \E e \in Configured : HasBothTemperatures(e) /\ CountsAsDemanding(e))

\* demand through the delta alone, next to a TRV at its target that does not count
C2_Witness ==
    /\ Recomputed
    /\ is_heating_demanded
    /\ ~Heating(TRV1) /\ ~Heating(TRV2)
    /\ HasBothTemperatures(TRV1) /\ ~CountsAsDemanding(TRV1)
    /\ SignedDelta(TRV1) = 0 /\ store[TRV1].state = "heat"
    /\ HasBothTemperatures(TRV2) /\ CountsAsDemanding(TRV2)

\* the position of a configured TRV
ValidAt(i) == HasBothTemperatures(trv_climate_entities[i])
DeltaAt(i) == SignedDelta(trv_climate_entities[i])

\* position i holds the largest signed delta of the valid TRVs, and no
\* earlier valid TRV has as large a delta
EarliestLargest(i) ==
    /\ ValidAt(i)
    /\ \A j \in DOMAIN trv_climate_entities : ValidAt(j) => DeltaAt(j) <= DeltaAt(i)
    /\ \A j \in 1..(i - 1) : ValidAt(j) => DeltaAt(j) < DeltaAt(i)

\* C3 as stated: the leader is the valid TRV with the largest signed delta,
\* the earliest in configured order among those that share it.
C3_LeaderIsEarliestLargest ==
    Recomputed =>
        \A i \in DOMAIN trv_climate_entities :
            EarliestLargest(i) => max_demand_trv_entity_id = trv_climate_entities[i]

\* what the code does keep of C3: the same, for a largest delta above the
\* loop's starting value of max_delta
C3_LeaderAboveInitialMaxDelta ==
    Recomputed =>
        \A i \in DOMAIN trv_climate_entities :
            (EarliestLargest(i) /\ DeltaAt(i) > InitialMaxDelta)
                => max_demand_trv_entity_id = trv_climate_entities[i]

\* deltas [2, 2, 3] lead to the third TRV
C3_LaterLargerSeen ==
    /\ Recomputed /\ ~is_away
    /\ ValidAt(1) /\ ValidAt(2) /\ ValidAt(3)
    /\ DeltaAt(1) = 2 /\ DeltaAt(2) = 2 /\ DeltaAt(3) = 3
    /\ max_demand_trv_entity_id = TRV3

\* deltas [3, 3] lead to the first TRV
C3_TieSeen ==
    /\ Recomputed /\ ~is_away
    /\ ValidAt(1) /\ ValidAt(2) /\ ~store[TRV3].present
    /\ DeltaAt(1) = 3 /\ DeltaAt(2) = 3
    /\ max_demand_trv_entity_id = TRV1

\* C4 as stated: after a recompute with at least one valid TRV the leader is
\* one of the valid TRVs, max_demand_delta is max(0, its delta) and the
\* published leader temperatures are that TRV's raw values.
C4_LeaderPublishedWhenValid ==
    (Recomputed /\ \E e \in Configured : HasBothTemperatures(e)) =>
        \E e \in Configured :
            /\ HasBothTemperatures(e)
            /\ max_demand_trv_entity_id = e
            /\ max_demand_delta = Max(0, SignedDelta(e))
            /\ max_demand_current_temperature = store[e].current_temperature
            /\ max_demand_target_temperature = store[e].temperature

\* what the code does keep of C4: the same when some valid TRV's delta is
\* above the loop's starting value of max_delta
C4_LeaderPublishedAboveInitialMaxDelta ==
    (Recomputed /\ \E e \in Configured :
                      HasBothTemperatures(e) /\ SignedDelta(e) > InitialMaxDelta) =>
        \E e \in Configured :
            /\ HasBothTemperatures(e)
            /\ max_demand_trv_entity_id = e
            /\ max_demand_delta = Max(0, SignedDelta(e))
            /\ max_demand_current_temperature = store[e].current_temperature
            /\ max_demand_target_temperature = store[e].temperature

\* trv1 18/21 heating and trv2 20/20 idle: demanding, leader trv1, delta 3
C4_ScenarioSeen ==
    /\ Recomputed /\ ~is_away
    /\ store[TRV1].current_temperature = Num(18) /\ store[TRV1].temperature = Num(21)
    /\ store[TRV1].hvac_action = "heating"
    /\ store[TRV2].current_temperature = Num(20) /\ store[TRV2].temperature = Num(20)
    /\ store[TRV2].hvac_action = "idle"
    /\ is_heating_demanded
    /\ max_demand_trv_entity_id = TRV1
    /\ max_demand_delta = 3

\* C5: the published max_demand_delta is never negative.
C5_MaxDemandDeltaNotNegative == max_demand_delta >= 0

\* every valid TRV is above its target and the published delta is 0
C5_Witness ==
    /\ Recomputed
    /\ max_demand_trv_entity_id # NoneStr
    /\ \A e \in Configured : HasBothTemperatures(e) /\ SignedDelta(e) < 0
    /\ max_demand_delta = 0

\* C6: after a recompute in away mode, demand and leader selection use
\* away_temp - current_temperature for every TRV: demand is decided by it,
\* the leader (when there is one) has the largest such delta, and the
\* published max_demand_delta is max(0, away_temp - the leader's current).
AwayDelta(e) == away_temp - store[e].current_temperature.v

C6_AwayUsesAwayTemp ==
    (Recomputed /\ is_away) =>
        /\ is_heating_demanded <=>
               \E e \in Configured :
                   /\ HasBothTemperatures(e)
                   /\ \/ store[e].hvac_action = "heating"
                      \/ store[e].state = "heat" /\ AwayDelta(e) > 0
        /\ max_demand_trv_entity_id # NoneStr =>
               /\ max_demand_trv_entity_id \in Configured
               /\ HasBothTemperatures(max_demand_trv_entity_id)
               /\ \A e \in Configured :
                      HasBothTemperatures(e) =>
                          AwayDelta(e) <= AwayDelta(max_demand_trv_entity_id)
               /\ max_demand_delta = Max(0, AwayDelta(max_demand_trv_entity_id))
        /\ max_demand_trv_entity_id = NoneStr => max_demand_delta = 0

\* zone "0", target 21, current 15: delta 12 - 15 = -3, published 0, although
\* the TRV's own setpoint is above its current temperature
C6_Witness ==
    /\ Recomputed /\ is_away /\ zone_state = "0"
    /\ store[TRV1].temperature = Num(21)
    /\ store[TRV1].current_temperature = Num(15)
    /\ store[TRV1].state = "heat" /\ store[TRV1].hvac_action = "idle"
    /\ ~store[TRV2].present
    /\ max_demand_trv_entity_id = TRV1
    /\ max_demand_delta = 0
    /\ ~is_heating_demanded

\* C8: with a heater configured, a recompute hands _async_control_heater the
\* mode heat if is_demanding else off, and the leader's target if is_demanding
\* and a leader is present, else minimum_temperature; off goes with
\* minimum_temperature.
C8_CommandDerivedFromResult ==
    (Recomputed /\ heater_entity_id # NoneStr /\ last_event.kind = "start") =>
        /\ Len(tasks) = 1
        /\ tasks[1].target_hvac_mode = (IF is_heating_demanded THEN "heat" ELSE "off")
        /\ tasks[1].target_temp =
               (IF is_heating_demanded /\ max_demand_target_temperature # None
                THEN max_demand_target_temperature
                ELSE Num(minimum_temperature))
        /\ tasks[1].target_hvac_mode = "off" =>
               tasks[1].target_temp = Num(minimum_temperature)

\* nothing demands although a leader with a target is published: off with the
\* minimum temperature
C8_Witness ==
    /\ Recomputed /\ heater_entity_id # NoneStr
    /\ ~is_heating_demanded
    /\ max_demand_target_temperature = Num(21)
    /\ Len(tasks) = 1
    /\ tasks[1].target_hvac_mode = "off"
    /\ tasks[1].target_temp = Num(minimum_temperature)

\* a step in which task i issues its set_temperature / set_hvac_mode call
IssuesTemperature(i) ==
    /\ Len(tasks') = Len(tasks)
    /\ i \in DOMAIN tasks
    /\ tasks[i].pc # "await_temp"
    /\ tasks'[i].pc = "await_temp"

IssuesMode(i) ==
    /\ Len(tasks') = Len(tasks)
    /\ i \in DOMAIN tasks
    /\ tasks[i].pc # "await_mode"
    /\ tasks'[i].pc = "await_mode"

\* C7: of two dispatches with the same command run one after the other, the
\* second issues no call that the first issued successfully (or did not need
\* to issue), so one set_temperature and one set_hvac_mode are issued in
\* total; and a call is issued only for a value that differs from the last
\* one sent.
C7_SecondDispatchSilent ==
    done # <<>> =>
        /\ done[1].prev_temp_call \in {"ok", "no"} => done[1].temp_call = "no"
        /\ done[1].prev_mode_call \in {"ok", "no"} => done[1].mode_call = "no"

C7_IssuedOnlyWhenDifferent ==
    \A i \in 1..MaxTasks :
        /\ IssuesTemperature(i) =>
               tasks[i].target_temp # last_sent_target_temperature'
        /\ IssuesMode(i) =>
               tasks[i].target_hvac_mode # last_sent_hvac_mode'

C7_Debounce == []C7_SecondDispatchSilent /\ [][C7_IssuedOnlyWhenDifferent]_vars

\* the first dispatch issued both calls with success, the second, with the
\* same command, issued none
C7_Witness ==
    /\ done # <<>>
    /\ done[1].prev_temp_call = "ok" /\ done[1].prev_mode_call = "ok"
    /\ done[1].temp_call = "no" /\ done[1].mode_call = "no"
    /\ tasks = <<>>

\* C9: a failed call leaves the debounce state without the failed value (as
\* long as no later dispatch has run, the state differs from it), and of two
\* dispatches with the same command run one after the other, the second
\* issues again each call that failed in the first.
NoneRunning == \A i \in DOMAIN tasks : tasks[i].pc = "start"

C9_FailureDoesNotStick ==
    done # <<>> =>
        /\ (NoneRunning /\ done[1].temp_call = "failed") =>
               last_sent_target_temperature # done[1].target_temp
        /\ (NoneRunning /\ done[1].mode_call = "failed") =>
               last_sent_hvac_mode # done[1].target_hvac_mode
        /\ done[1].prev_temp_call = "failed" => done[1].temp_call \in {"ok", "failed"}
        /\ done[1].prev_mode_call = "failed" => done[1].mode_call \in {"ok", "failed"}

\* both calls of the first dispatch failed and the second issued both again,
\* this time with success
C9_Witness ==
    /\ done # <<>>
    /\ done[1].prev_temp_call = "failed" /\ done[1].prev_mode_call = "failed"
    /\ done[1].temp_call = "ok" /\ done[1].mode_call = "ok"
    /\ last_sent_target_temperature = done[1].target_temp
    /\ last_sent_hvac_mode = done[1].target_hvac_mode

\* C10: a TRV notification that is neither a first observation (old empty, new
\* present) nor a change of hvac_action, current_temperature or temperature
\* between two present states leaves the published state, the leader
\* attributes, the debounce state, the dispatches and the plain sensor as
\* they were.
WorthRecomputing(old, new) ==
    \/ ~old.present /\ new.present
    \/ /\ old.present /\ new.present
       /\ \/ old.hvac_action # new.hvac_action
          \/ old.current_temperature # new.current_temperature
          \/ old.temperature # new.temperature

C10_OtherNotificationIgnored ==
    \A e \in Configured :
        (store'[e] # store[e] /\ ~WorthRecomputing(store[e], store'[e])) =>
            UNCHANGED <<publishedVars, debounceVars, tasks, done,
                        plain_is_heating_demanded>>

C10_ListenerFilter == [][C10_OtherNotificationIgnored]_vars

\* the leading TRV was removed and the sensor still publishes it
C10_Witness ==
    /\ last_event.kind = "trv" /\ last_event.binary = "skipped"
    /\ heater_entity_id # NoneStr
    /\ ~store[TRV1].present
    /\ max_demand_trv_entity_id = TRV1
    /\ is_heating_demanded

\* C11 as stated: no recompute ends in an error, whatever is missing or
\* malformed among the configured TRVs' entities and attributes.
C11_RecomputeNeverRaises == last_event.binary # "raised"

\* C12: after a recompute with every configured TRV missing from the store or
\* lacking a temperature, is_demanding is false, max_demand_delta is 0 and the
\* leader's current temperature, target temperature, entity id and name are
\* empty, whatever had been published before.
C12_NothingValidPublishesNothing ==
    (Recomputed /\ \A e \in Configured : ~HasBothTemperatures(e)) =>
        /\ ~is_heating_demanded
        /\ max_demand_delta = 0
        /\ max_demand_current_temperature = None
        /\ max_demand_target_temperature = None
        /\ max_demand_trv_entity_id = NoneStr
        /\ max_demand_trv_name = NoneStr

\* both TRVs are gone and a zone change made the binary sensor recompute; the
\* plain sensor, which has no zone listener, still shows the demand of the
\* recompute both sensors ran before
C12_Witness ==
    /\ Recomputed /\ last_event.kind = "zone"
    /\ \A e \in Configured : ~store[e].present
    /\ plain_is_heating_demanded
    /\ ~is_heating_demanded
    /\ max_demand_trv_entity_id = NoneStr

\* a step in which a notification handler ran (the start event, a zone change
\* or a TRV change): the only steps in which a recompute can run
HandlerStep == store' # store \/ zone_state' # zone_state \/ started' # started

\* C13 as stated: the debounce state is read and written only in the
\* synchronous recompute step, never by dispatch code that runs after an
\* outbound call was awaited.
C13_DebounceWrittenOnlyByRecompute ==
    [][debounceVars' # debounceVars => HandlerStep]_vars

\* what the writes after the awaits allow: a second dispatch read the debounce
\* state while the first was suspended at its call, and the same
\* set_temperature call is in flight twice
C13_RaceSeen ==
    /\ Len(tasks) = 2
    /\ tasks[1].pc = "await_temp" /\ tasks[2].pc = "await_temp"
    /\ tasks[1].target_temp = tasks[2].target_temp

\* C14: after every recompute, away is true exactly when a zone entity id is
\* configured, the entity is present in the store and its raw state is "0";
\* this holds whatever the recompute before had resolved.
C14_AwayResolvedAfresh ==
    last_event.binary # "skipped" =>
        (is_away <=> (/\ zone_entity_id # NoneStr
                      /\ zone_state # NoneStr
                      /\ zone_state = "0"))

\* the zone entity went missing and the recompute on that notification
\* resolved not-away
C14_Witness ==
    /\ last_event.kind = "zone" /\ Recomputed
    /\ zone_entity_id # NoneStr /\ zone_state = NoneStr
    /\ started
    /\ ~is_away

\* C15: after a recompute of the plain sensor it is "on" exactly when some
\* configured TRV present in the store has hvac_action "heating" or has raw
\* state "heat", both temperatures, and a current temperature strictly below
\* its own target; the zone entity plays no part.
BelowOwnTarget(e) ==
    /\ store[e].current_temperature # None /\ store[e].temperature # None
    /\ IsNum(store[e].current_temperature) /\ IsNum(store[e].temperature)
    /\ store[e].current_temperature.v < store[e].temperature.v

C15_PlainOnIffSomeTrvBelowOwnTarget ==
    PlainRecomputed =>
        (plain_is_heating_demanded <=>
            \E e \in Configured :
                /\ store[e].present
                /\ \/ store[e].hvac_action = "heating"
                   \/ store[e].state = "heat" /\ BelowOwnTarget(e))

\* away: the TRV is below its own target and above away_temp, so the plain
\* sensor is on while the binary sensor demands nothing
C15_Witness ==
    /\ PlainRecomputed /\ Recomputed
    /\ is_away
    /\ store[TRV1].present /\ store[TRV1].state = "heat"
    /\ store[TRV1].hvac_action = "idle"
    /\ BelowOwnTarget(TRV1) /\ store[TRV1].current_temperature.v > away_temp
    /\ ~store[TRV2].present
    /\ plain_is_heating_demanded
    /\ ~is_heating_demanded

\* a step in which the coroutine of task i begins, and one in which its
\* set_temperature call comes back
StartsTask(i) ==
    /\ i \in DOMAIN tasks
    /\ tasks[i].pc = "start"
    /\ \/ tasks' = Remove(tasks, i)
       \/ Len(tasks') = Len(tasks) /\ tasks'[i].pc \in {"await_temp", "await_mode"}

TemperatureCallEnds(i) ==
    /\ i \in DOMAIN tasks
    /\ tasks[i].pc = "await_temp"
    /\ \/ tasks' = Remove(tasks, i)
       \/ Len(tasks') = Len(tasks) /\ tasks'[i].pc = "await_mode"

\* C16: in one dispatch pass the set_temperature decision and call come before
\* the set_hvac_mode decision and call, and each is decided on its own: the
\* pass issues set_temperature exactly when its target differs from the last
\* one sent, and once that call is over (or was not needed) issues
\* set_hvac_mode exactly when its mode differs from the last one sent, whether
\* set_temperature succeeded or failed; a failed set_temperature leaves both
\* last-sent values as they were.
C16_TemperatureBeforeMode ==
    /\ \A i \in DOMAIN tasks :
           /\ tasks[i].pc = "start" =>
                  tasks[i].temp_call = "no" /\ tasks[i].mode_call = "no"
           /\ tasks[i].pc = "await_temp" =>
                  tasks[i].temp_call = "issued" /\ tasks[i].mode_call = "no"
           /\ tasks[i].pc = "await_mode" =>
                  tasks[i].temp_call # "issued" /\ tasks[i].mode_call = "issued"
    /\ done # <<>> => done[1].temp_call # "issued" /\ done[1].mode_call # "issued"

C16_EachDecidedOnItsOwn ==
    \A i \in 1..MaxTasks :
        /\ StartsTask(i) =>
               /\ IssuesTemperature(i) <=>
                      tasks[i].target_temp # last_sent_target_temperature
               /\ ~IssuesTemperature(i) =>
                      (IssuesMode(i) <=>
                          tasks[i].target_hvac_mode # last_sent_hvac_mode)
               /\ UNCHANGED debounceVars
        /\ TemperatureCallEnds(i) =>
               /\ IssuesMode(i) <=>
                      tasks[i].target_hvac_mode # last_sent_hvac_mode
               /\ last_sent_hvac_mode' = last_sent_hvac_mode
               /\ last_sent_target_temperature' \in
                      {last_sent_target_temperature, tasks[i].target_temp}
               /\ (IssuesMode(i) /\ tasks'[i].temp_call = "failed") =>
                      last_sent_target_temperature' = last_sent_target_temperature

C16_TemperatureThenModeIndependent ==
    []C16_TemperatureBeforeMode /\ [][C16_EachDecidedOnItsOwn]_vars

\* set_temperature failed, nothing was stored, and the same pass has its
\* set_hvac_mode call in flight
C16_Witness ==
    /\ Len(tasks) = 1
    /\ tasks[1].alone
    /\ tasks[1].pc = "await_mode"
    /\ tasks[1].temp_call = "failed" /\ tasks[1].mode_call = "issued"
    /\ last_sent_target_temperature = None
    /\ last_sent_hvac_mode = NoneStr

\* C17 as stated: whenever no dispatch is in flight, the last-sent temperature
\* (when set) is the temperature of the latest set_temperature call sent to
\* the heater with success, and the last-sent mode likewise, for every
\* interleaving of recomputes and dispatches.
C17_LastSentIsLatestCall ==
    tasks = <<>> =>
        /\ last_sent_target_temperature # None =>
               last_sent_target_temperature = heater.temperature
        /\ last_sent_hvac_mode # NoneStr =>
               last_sent_hvac_mode = heater.hvac_mode

\* C18 as stated: once every dispatch has finished, all calls having
\* succeeded, the last set_temperature and set_hvac_mode the heater was sent
\* carry the target and mode derived by the latest recompute.
C18_HeaterEndsWithLatestCommand ==
    (started /\ tasks = <<>>) =>
        /\ heater.hvac_mode = (IF is_heating_demanded THEN "heat" ELSE "off")
        /\ heater.temperature =
               (IF is_heating_demanded /\ max_demand_target_temperature # None
                THEN max_demand_target_temperature
                ELSE Num(minimum_temperature))

\* with no call reordered: a dispatch for heat is suspended at its
\* set_temperature call while the next dispatch, for off, finds both values
\* already sent and ends; the heater is left heating with nothing demanded
C18_StaleHeatSeen ==
    /\ started /\ tasks = <<>>
    /\ Recomputed /\ ~is_heating_demanded
    /\ heater = [temperature |-> Num(21), hvac_mode |-> "heat"]
    /\ last_sent_target_temperature = Num(21)
    /\ last_sent_hvac_mode = "heat"

\* C19 as stated: once the binary sensor has handled a TRV or zone
\* notification after startup, its published is_demanding and leader
\* attributes are what the aggregation yields on the store as it is now.
C19_PublishedNeverStale ==
    (started /\ last_event.kind \in {"trv", "zone"}) =>
        LET r == Aggregate(trv_climate_entities, store, zone_entity_id,
                           zone_state)
        IN /\ is_heating_demanded = r.is_heating_demanded
           /\ max_demand_delta = r.max_demand_delta
           /\ max_demand_current_temperature = r.max_demand_current_temperature
           /\ max_demand_target_temperature = r.max_demand_target_temperature
           /\ max_demand_trv_entity_id = r.max_demand_trv_entity_id
           /\ max_demand_trv_name = r.max_demand_trv_name

\* the only TRV went from raw state "heat" to "off" below its target, the
\* notification was ignored, and demand is still published
C19_StaleAfterRawStateChange ==
    /\ started
    /\ last_event.kind = "trv" /\ last_event.binary = "skipped"
    /\ ~store[TRV2].present
    /\ store[TRV1].present /\ store[TRV1].state = "off"
    /\ store[TRV1].hvac_action = "idle"
    /\ is_heating_demanded

\* C20 as stated: a recompute that derives a command with mode heat relays
\* the own setpoint of a TRV that counts as demanding in that recompute.
C20_RelayedTargetIsOfDemandingTrv ==
    (/\ Recomputed /\ last_event.kind = "start"
     /\ heater_entity_id # NoneStr
     /\ Len(tasks) = 1 /\ tasks[1].target_hvac_mode = "heat") =>
        \E e \in Configured :
            /\ HasBothTemperatures(e)
            /\ CountsAsDemanding(e)
            /\ tasks[1].target_temp = store[e].temperature

\* trv1 is off and idle at 10 with setpoint 21, trv2 heats at 20 with
\* setpoint 20: the command is heat with trv1's 21
C20_OffTrvLeadsSeen ==
    /\ Recomputed /\ ~is_away /\ heater_entity_id # NoneStr
    /\ store[TRV1] = State("off", "idle", Num(10), Num(21), "Room")
    /\ store[TRV2] = State("heat", "heating", Num(20), Num(20), "Room")
    /\ Len(tasks) = 1
    /\ tasks[1].target_hvac_mode = "heat" /\ tasks[1].target_temp = Num(21)

\* away mode is inactive and every TRV in the store has both temperatures
PlainComparable ==
    /\ ~(zone_entity_id # NoneStr /\ zone_state = "0")
    /\ \A e \in Configured : store[e].present => HasBothTemperatures(e)

\* C21 as stated: the two sensors running on the same store, away mode
\* inactive and every present TRV with both temperatures, the binary sensor's
\* is_demanding is true exactly when the plain sensor is "on".
C21_BinaryAgreesWithPlain ==
    (started /\ PlainComparable) =>
        (is_heating_demanded <=> plain_is_heating_demanded)

\* what the code does keep of C21: the same once both sensors have recomputed
\* on the store as it is now
C21_AgreeAfterBothRecompute ==
    (Recomputed /\ PlainRecomputed /\ PlainComparable) =>
        (is_heating_demanded <=> plain_is_heating_demanded)

\* both TRVs are in the store; a zone notification made the binary sensor
\* alone recompute after a raw state had changed unnoticed: it demands
\* nothing, the plain sensor is still on
C21_ZoneRecomputeSeen ==
    /\ started /\ PlainComparable
    /\ \A e \in Configured : store[e].present
    /\ last_event.kind = "zone" /\ Recomputed
    /\ ~is_heating_demanded
    /\ plain_is_heating_demanded

====
